---- MODULE Spec2Model ----
(***************************************************************************)
(* Model of the Debounce library (Debounce.h / Debounce.cpp): a 16-bit     *)
(* shift-register button debouncer with press / release events, a          *)
(* double-press sequencer and a long-press tracker, polled by update().    *)
(*                                                                         *)
(* btn[b] holds the fields of the Debounce instance b.  wasDown and        *)
(* pressStartTime are the function-local statics of Debounce::update, of   *)
(* which the process holds one copy for all instances.  now is the value   *)
(* millis() returns.  obs[b] is an observer: it records what was sampled   *)
(* and which callbacks ran, and never influences btn, the statics or now.  *)
(***************************************************************************)
EXTENDS Integers, FiniteSets

VARIABLES btn, wasDown, pressStartTime, now, obs

vars == <<btn, wasDown, pressStartTime, now, obs>>

(***************************************************************************)
(* Program constants.                                                      *)
(***************************************************************************)
MASK == 61503        \* 0b1111000000111111
RELEASE == 61440     \* 0b1111000000000000
DOWN == 65535        \* 0b1111111111111111
UP == 0              \* 0b0000000000000000
PRESS == 63          \* 0b0000000000111111
CLEAR == 0           \* 0b0000000000000000
SET == 65535         \* 0b1111111111111111

HistBits == 16       \* uint16_t _buttonHistory
LOW == 0
HIGH == 1
DefaultDoublePressWindow == 300
DefaultLongPressTime == 1000
CooldownMs == 50

NoCallback == "NULL"
Events == {"press", "release", "doublePress", "longPressStart", "longPressEnd"}

(***************************************************************************)
(* Bounds of the model.                                                    *)
(***************************************************************************)
ClockBits == 11      \* width of the millisecond counter in the model
TickBits == 9        \* millis() advances by 0 or 2^TickBits between two calls
MaxBounce == 0       \* level changes allowed before the history has settled

ClockMod == 2 ^ ClockBits
TickMs == 2 ^ TickBits
Buttons == {"A", "B"}
Levels == {LOW, HIGH}

(***************************************************************************)
(* Fixed-width arithmetic.                                                 *)
(***************************************************************************)
\* a & b on one hexadecimal digit
And4 ==
    [a \in 0..15 |-> [b \in 0..15 |->
        (IF a % 2 = 1 /\ b % 2 = 1 THEN 1 ELSE 0)
        + (IF (a \div 2) % 2 = 1 /\ (b \div 2) % 2 = 1 THEN 2 ELSE 0)
        + (IF (a \div 4) % 2 = 1 /\ (b \div 4) % 2 = 1 THEN 4 ELSE 0)
        + (IF a \div 8 = 1 /\ b \div 8 = 1 THEN 8 ELSE 0)]]

\* x & y on uint16_t, digit by digit
BitAnd(x, y) ==
    And4[x % 16][y % 16]
    + 16 * And4[(x \div 16) % 16][(y \div 16) % 16]
    + 256 * And4[(x \div 256) % 16][(y \div 256) % 16]
    + 4096 * And4[(x \div 4096) % 16][(y \div 4096) % 16]

\* a shift that forgets to add the new reading
ShiftInDropsReading(h, bit) == (h * 2) % (2 ^ HistBits)

\* (uint16_t)(h << 1) | bit, bit in {0, 1}
ShiftIn(h, bit) == ((h * 2) % (2 ^ HistBits)) + bit

\* a subtraction on millisecond counters that were not unsigned
ElapsedSigned(a, b) == a - b

\* unsigned subtraction a - b on the millisecond counter
Elapsed(a, b) == (a - b + ClockMod) % ClockMod

Min(a, b) == IF a < b THEN a ELSE b

(***************************************************************************)
(* Construction.                                                           *)
(***************************************************************************)
\* the in-class member initialisers of Debounce.h
Members ==
    [ buttonHistory |-> 0, active |-> 0, prevState |-> 0,
      doublePressEnabled |-> FALSE,
      doublePressWindow |-> DefaultDoublePressWindow,
      dpState |-> "DP_IDLE", firstPressTime |-> 0, isDoublePressed |-> FALSE,
      longPressTime |-> DefaultLongPressTime, longPressDetected |-> FALSE,
      pressCallback |-> NoCallback, releaseCallback |-> NoCallback,
      doublePressCallback |-> NoCallback,
      longPressStartCallback |-> NoCallback,
      longPressEndCallback |-> NoCallback ]

\* Debounce::Debounce(uint8_t buttonPin)
Debounce1 ==
    [Members EXCEPT !.active = HIGH, !.buttonHistory = 0, !.prevState = 0]

\* Debounce::Debounce(uint8_t buttonPin, uint8_t logicLevel)
Debounce2(logicLevel) ==
    [Members EXCEPT !.active = logicLevel,
                    !.buttonHistory = IF logicLevel = LOW THEN 65535 ELSE 0,
                    !.prevState = 0]

(***************************************************************************)
(* The methods, as functions of the instance s.  A method that both        *)
(* returns a value and changes the instance yields [ret, s].               *)
(***************************************************************************)
\* Debounce::readButton, level being what digitalRead(_button) returns
readButton(s, level) ==
    IF s.active = LOW /\ level = LOW THEN 1
    ELSE IF s.active = HIGH /\ level = HIGH THEN 1
    ELSE 0

\* an isPressed() that compares the whole history with the press pattern
isPressedWithoutMask(s) ==
    IF s.buttonHistory = PRESS
    THEN [ret |-> 1, s |-> [s EXCEPT !.buttonHistory = SET]]
    ELSE [ret |-> 0, s |-> s]

\* an isPressed() that leaves the history as it is
isPressedKeepsHistory(s) ==
    IF BitAnd(s.buttonHistory, MASK) = PRESS
    THEN [ret |-> 1, s |-> s]
    ELSE [ret |-> 0, s |-> s]

isPressed(s) ==
    IF BitAnd(s.buttonHistory, MASK) = PRESS
    THEN [ret |-> 1, s |-> [s EXCEPT !.buttonHistory = SET]]
    ELSE [ret |-> 0, s |-> s]

isReleased(s) ==
    IF BitAnd(MASK, s.buttonHistory) = RELEASE
    THEN [ret |-> 1, s |-> [s EXCEPT !.buttonHistory = CLEAR]]
    ELSE [ret |-> 0, s |-> s]

isDown(s) == IF s.buttonHistory = DOWN THEN 1 ELSE 0

isUp(s) == IF s.buttonHistory = UP THEN 1 ELSE 0

stateChanged(s) == IF isDown(s) # s.prevState THEN 1 ELSE 0

\* an isDoublePressed() that answers while detection is switched off
isDoublePressedIgnoresSwitch(s) ==
    IF s.isDoublePressed
    THEN [ret |-> 1, s |-> [s EXCEPT !.isDoublePressed = FALSE]]
    ELSE [ret |-> 0, s |-> s]

\* an isDoublePressed() that leaves the result flag set
isDoublePressedKeepsFlag(s) ==
    IF ~s.doublePressEnabled THEN [ret |-> 0, s |-> s]
    ELSE IF s.isDoublePressed
    THEN [ret |-> 1, s |-> s]
    ELSE [ret |-> 0, s |-> s]

isDoublePressed(s) ==
    IF ~s.doublePressEnabled THEN [ret |-> 0, s |-> s]
    ELSE IF s.isDoublePressed
    THEN [ret |-> 1, s |-> [s EXCEPT !.isDoublePressed = FALSE]]
    ELSE [ret |-> 0, s |-> s]

enableDoublePressDetection(s, enable) ==
    [s EXCEPT !.doublePressEnabled = enable, !.dpState = "DP_IDLE"]

setDoublePressWindow(s, windowMs) == [s EXCEPT !.doublePressWindow = windowMs]

setLongPressTime(s, timeMs) == [s EXCEPT !.longPressTime = timeMs]

onPress(s, callback) == [s EXCEPT !.pressCallback = callback]

onRelease(s, callback) == [s EXCEPT !.releaseCallback = callback]

onDoublePress(s, callback) == [s EXCEPT !.doublePressCallback = callback]

onLongPressStart(s, callback) == [s EXCEPT !.longPressStartCallback = callback]

onLongPressEnd(s, callback) == [s EXCEPT !.longPressEndCallback = callback]

(***************************************************************************)
(* Debounce::updateDoublePress at clock reading t: [s, invoked], invoked   *)
(* being the set of callbacks that ran.                                    *)
(***************************************************************************)
updateDoublePress(s, t) ==
    CASE s.dpState = "DP_IDLE" ->
            LET p == isPressed(s) IN
            IF p.ret = 1
            THEN [s |-> [p.s EXCEPT !.dpState = "DP_FIRST_DETECTED",
                                    !.firstPressTime = t],
                  invoked |-> {}]
            ELSE [s |-> p.s, invoked |-> {}]
      [] s.dpState = "DP_FIRST_DETECTED" ->
            LET r == isReleased(s) IN
            IF r.ret = 1
            THEN [s |-> [r.s EXCEPT !.dpState = "DP_AWAITING_SECOND"],
                  invoked |-> {}]
            ELSE [s |-> r.s, invoked |-> {}]
      [] s.dpState = "DP_AWAITING_SECOND" ->
            LET p == isPressed(s) IN
            IF p.ret = 1
            THEN IF Elapsed(t, s.firstPressTime) < s.doublePressWindow
                 THEN [s |-> [p.s EXCEPT !.dpState = "DP_DETECTED",
                                         !.isDoublePressed = TRUE],
                       invoked |-> IF s.doublePressCallback # NoCallback
                                   THEN {"doublePress"} ELSE {}]
                 ELSE [s |-> [p.s EXCEPT !.dpState = "DP_FIRST_DETECTED",
                                         !.firstPressTime = t],
                       invoked |-> {}]
            ELSE IF Elapsed(t, s.firstPressTime) >= s.doublePressWindow
                 THEN [s |-> [p.s EXCEPT !.dpState = "DP_IDLE"], invoked |-> {}]
                 ELSE [s |-> p.s, invoked |-> {}]
      [] s.dpState = "DP_DETECTED" ->
            LET r == isReleased(s) IN
            IF r.ret = 1
            THEN [s |-> [r.s EXCEPT !.dpState = "DP_COOLDOWN"], invoked |-> {}]
            ELSE [s |-> r.s, invoked |-> {}]
      [] s.dpState = "DP_COOLDOWN" ->
            IF Elapsed(t, s.firstPressTime) >= CooldownMs
            THEN [s |-> [s EXCEPT !.isDoublePressed = FALSE,
                                  !.dpState = "DP_IDLE"],
                  invoked |-> {}]
            ELSE [s |-> s, invoked |-> {}]

\* a long press detection that does not remember having fired
longPressDetectionRefires(s, wd, pst, t) ==
    IF isDown(s) = 1
    THEN IF ~wd
         THEN [wd |-> TRUE, pst |-> t, detected |-> FALSE, invoked |-> {}]
         ELSE IF Elapsed(t, pst) >= s.longPressTime
         THEN [wd |-> wd, pst |-> pst, detected |-> TRUE,
               invoked |-> IF s.longPressStartCallback # NoCallback
                           THEN {"longPressStart"} ELSE {}]
         ELSE [wd |-> wd, pst |-> pst, detected |-> s.longPressDetected,
               invoked |-> {}]
    ELSE IF wd
         THEN [wd |-> FALSE, pst |-> pst, detected |-> s.longPressDetected,
               invoked |-> IF s.longPressDetected
                              /\ s.longPressEndCallback # NoCallback
                           THEN {"longPressEnd"} ELSE {}]
         ELSE [wd |-> wd, pst |-> pst, detected |-> s.longPressDetected,
               invoked |-> {}]

\* a long press detection that ends every hold with the end callback
longPressDetectionAlwaysEnds(s, wd, pst, t) ==
    IF isDown(s) = 1
    THEN IF ~wd
         THEN [wd |-> TRUE, pst |-> t, detected |-> FALSE, invoked |-> {}]
         ELSE IF ~s.longPressDetected /\ Elapsed(t, pst) >= s.longPressTime
         THEN [wd |-> wd, pst |-> pst, detected |-> TRUE,
               invoked |-> IF s.longPressStartCallback # NoCallback
                           THEN {"longPressStart"} ELSE {}]
         ELSE [wd |-> wd, pst |-> pst, detected |-> s.longPressDetected,
               invoked |-> {}]
    ELSE IF wd
         THEN [wd |-> FALSE, pst |-> pst, detected |-> s.longPressDetected,
               invoked |-> IF s.longPressEndCallback # NoCallback
                           THEN {"longPressEnd"} ELSE {}]
         ELSE [wd |-> wd, pst |-> pst, detected |-> s.longPressDetected,
               invoked |-> {}]

\* a long press detection that keeps the timestamp of an earlier hold
longPressDetectionKeepsStart(s, wd, pst, t) ==
    IF isDown(s) = 1
    THEN IF ~wd
         THEN [wd |-> TRUE, pst |-> pst, detected |-> FALSE, invoked |-> {}]
         ELSE IF ~s.longPressDetected /\ Elapsed(t, pst) >= s.longPressTime
         THEN [wd |-> wd, pst |-> pst, detected |-> TRUE,
               invoked |-> IF s.longPressStartCallback # NoCallback
                           THEN {"longPressStart"} ELSE {}]
         ELSE [wd |-> wd, pst |-> pst, detected |-> s.longPressDetected,
               invoked |-> {}]
    ELSE IF wd
         THEN [wd |-> FALSE, pst |-> pst, detected |-> s.longPressDetected,
               invoked |-> IF s.longPressDetected
                              /\ s.longPressEndCallback # NoCallback
                           THEN {"longPressEnd"} ELSE {}]
         ELSE [wd |-> wd, pst |-> pst, detected |-> s.longPressDetected,
               invoked |-> {}]

\* a long press detection that fires only with a start callback to invoke
longPressDetectionNeedsCallback(s, wd, pst, t) ==
    IF isDown(s) = 1
    THEN IF ~wd
         THEN [wd |-> TRUE, pst |-> t, detected |-> FALSE, invoked |-> {}]
         ELSE IF ~s.longPressDetected /\ Elapsed(t, pst) >= s.longPressTime
                 /\ s.longPressStartCallback # NoCallback
         THEN [wd |-> wd, pst |-> pst, detected |-> TRUE,
               invoked |-> {"longPressStart"}]
         ELSE [wd |-> wd, pst |-> pst, detected |-> s.longPressDetected,
               invoked |-> {}]
    ELSE IF wd
         THEN [wd |-> FALSE, pst |-> pst, detected |-> s.longPressDetected,
               invoked |-> IF s.longPressDetected
                              /\ s.longPressEndCallback # NoCallback
                           THEN {"longPressEnd"} ELSE {}]
         ELSE [wd |-> wd, pst |-> pst, detected |-> s.longPressDetected,
               invoked |-> {}]

(***************************************************************************)
(* The long press detection of Debounce::update (its last block), on the   *)
(* tracker (wd, pst) = (wasDown, pressStartTime):                          *)
(* [wd, pst, detected, invoked].                                           *)
(***************************************************************************)
longPressDetection(s, wd, pst, t) ==
    IF isDown(s) = 1
    THEN IF ~wd
         THEN [wd |-> TRUE, pst |-> t, detected |-> FALSE, invoked |-> {}]
         ELSE IF ~s.longPressDetected /\ Elapsed(t, pst) >= s.longPressTime
         THEN [wd |-> wd, pst |-> pst, detected |-> TRUE,
               invoked |-> IF s.longPressStartCallback # NoCallback
                           THEN {"longPressStart"} ELSE {}]
         ELSE [wd |-> wd, pst |-> pst, detected |-> s.longPressDetected,
               invoked |-> {}]
    ELSE IF wd
         THEN [wd |-> FALSE, pst |-> pst, detected |-> s.longPressDetected,
               invoked |-> IF s.longPressDetected
                              /\ s.longPressEndCallback # NoCallback
                           THEN {"longPressEnd"} ELSE {}]
         ELSE [wd |-> wd, pst |-> pst, detected |-> s.longPressDetected,
               invoked |-> {}]

\* an update() that leaves the press and the release for the sequencer to
\* consume
updateLeavesPress(s, wd, pst, level, t) ==
    LET s1 == [s EXCEPT !.buttonHistory =
                            ShiftIn(s.buttonHistory, readButton(s, level))]
        s2 == [s1 EXCEPT !.prevState = isDown(s1)]
        dp == IF s2.doublePressEnabled
              THEN updateDoublePress(s2, t)
              ELSE [s |-> s2, invoked |-> {}]
        lp == longPressDetection(dp.s, wd, pst, t)
    IN  [ s |-> [dp.s EXCEPT !.longPressDetected = lp.detected],
          wd |-> lp.wd, pst |-> lp.pst,
          pressed |-> isPressed(s2).ret, released |-> isReleased(s2).ret,
          invoked |-> dp.invoked \cup lp.invoked ]

(***************************************************************************)
(* Debounce::update with digitalRead() = level and millis() = t, the       *)
(* statics holding (wd, pst): [s, wd, pst, pressed, released, invoked].    *)
(***************************************************************************)
update(s, wd, pst, level, t) ==
    LET s1 == [s EXCEPT !.buttonHistory =
                            ShiftIn(s.buttonHistory, readButton(s, level))]
        s2 == [s1 EXCEPT !.prevState = isDown(s1)]
        p  == isPressed(s2)
        r  == isReleased(p.s)
        cb == (IF p.ret = 1 /\ s.pressCallback # NoCallback
               THEN {"press"} ELSE {})
              \cup (IF r.ret = 1 /\ s.releaseCallback # NoCallback
                    THEN {"release"} ELSE {})
        dp == IF r.s.doublePressEnabled
              THEN updateDoublePress(r.s, t)
              ELSE [s |-> r.s, invoked |-> {}]
        lp == longPressDetection(dp.s, wd, pst, t)
    IN  [ s |-> [dp.s EXCEPT !.longPressDetected = lp.detected],
          wd |-> lp.wd, pst |-> lp.pst,
          pressed |-> p.ret, released |-> r.ret,
          invoked |-> cb \cup dp.invoked \cup lp.invoked ]

(***************************************************************************)
(* Debounce::update of the variant without callbacks (src/Debounce.cpp in  *)
(* the library's src directory): it shifts the reading in and stores       *)
(* isDown(), and consumes nothing.                                         *)
(***************************************************************************)
updateBasic(s, level) ==
    LET s1 == [s EXCEPT !.buttonHistory =
                            ShiftIn(s.buttonHistory, readButton(s, level))]
    IN  [s1 EXCEPT !.prevState = isDown(s1)]

(***************************************************************************)
(* The observer.  Per instance: the samples read (n of them so far, the    *)
(* last one, the length run of the run of equal samples it ends and the    *)
(* length before of the run preceding that one, lengths and n counted up   *)
(* to HistBits), what the last update() did, and what the last public      *)
(* query returned.                                                         *)
(***************************************************************************)
Cap(k) == Min(k, HistBits)

Count(e, set, k) == IF e \in set THEN Min(k + 1, 2) ELSE k

LongPressEvents == {"longPressStart", "longPressEnd"}

Observer0 ==
    [ n |-> 0, last |-> 0, run |-> 0, before |-> 0, bounces |-> 0,
      \* the last update(): its buttonPressed / buttonReleased, the callbacks
      \* it invoked, and isDown() just before it
      pressed |-> 0, released |-> 0, invoked |-> {}, downBefore |-> 0,
      \* invocations of the press / release callback during the current run
      pressCalls |-> 0, releaseCalls |-> 0,
      \* public isPressed() calls since the last update(), and the last result
      queries |-> 0, ret |-> 0,
      \* the hold: isDown() after the last update(), the milliseconds since
      \* the update() at which isDown() became true, whether an update() after
      \* that one found them >= longPressTime, and the long-press callbacks
      \* invoked since the hold began
      held |-> FALSE, holdTime |-> 0, reached |-> FALSE,
      lpStarts |-> 0, lpEnds |-> 0,
      \* presses detected since double-press detection was enabled, whether a
      \* release followed the last one, the milliseconds since it, and what
      \* the second press amounts to: "double" (inside the window), "restart"
      \* (outside), "none" (this update() detected no second press)
      nPress |-> 0, relSeen |-> FALSE, sincePress |-> 0, second |-> "none",
      \* the long-press tracker of this instance run on its own: the statics
      \* and the fired flag it would hold, and the callbacks it would invoke
      soloWasDown |-> FALSE, soloPressStartTime |-> 0,
      soloDetected |-> FALSE, soloInvoked |-> {},
      \* the sequencer: whether detection was switched off by the last
      \* enableDoublePressDetection() call, the phase that call found, and
      \* the ticks and isDoublePressed() calls made since it (counted up to
      \* 1); the last isDoublePressed() result; since the last detection of
      \* a double press the isDoublePressed() calls made and those of them
      \* that returned true (counted up to 2); whether a first-press
      \* timestamp is in use and the milliseconds since it was recorded; the
      \* phase the last tick had to leave according to those milliseconds
      \* ("any" where no time comparison was due)
      disabled |-> FALSE, offPhase |-> "none", offTicks |-> 0, offAsked |-> 0,
      dpRet |-> 0, dpAsked |-> 0, dpTrue |-> 0,
      timing |-> FALSE, sinceFirst |-> 0, expected |-> "any",
      \* the twin: an active-high instance without callbacks and its own
      \* statics, which is configured and ticked as this instance is
      bare |-> [s |-> Debounce1, wd |-> FALSE, pst |-> 0],
      \* the last isPressed() or isReleased() call of the application: which
      \* of the two, the history it found, what it returned, whether a call
      \* of the same kind was made before it and whether one returned true;
      \* and the kinds called so far
      q |-> [kind |-> "none", before |-> 0, ret |-> 0, again |-> FALSE,
             trueBefore |-> FALSE],
      asked |-> {}, answered |-> {},
      \* the holds begun so far (counted up to 2) and the milliseconds
      \* isDown() has been true in all of them together
      holds |-> 0, downTotal |-> 0 ]

\* The observer after an update() of instance s that returned u.  It keeps
\* the records named in watch: "samples" (n, last, run, before, bounces),
\* "bounce" (bounces counts the level changes before HistBits equal samples;
\* needs "samples"), "edges" (pressCalls, releaseCalls; needs "samples"),
\* "hold", "total" (needs "hold"), "second", "alone" and "bare"; what the last
\* update() did it keeps always.
Observe(o, s, u, sample, dt, solo, watch) ==
    LET flip == o.n > 0 /\ sample # o.last
        run  == IF flip \/ o.n = 0 THEN 1 ELSE Cap(o.run + 1)
        down == isDown(u.s) = 1
        hold == IF down /\ o.held THEN Min(o.holdTime + dt, ClockMod)
                ELSE IF down THEN 0 ELSE o.holdTime
        isSecond == s.doublePressEnabled /\ u.pressed = 1
                    /\ o.nPress = 1 /\ o.relSeen
        o1 == [ o EXCEPT
                !.pressed = u.pressed, !.released = u.released,
                !.invoked = u.invoked, !.downBefore = isDown(s),
                !.queries = 0, !.ret = 0 ]
        o2 == IF "samples" \notin watch THEN o1
              ELSE [ o1 EXCEPT
                !.n = Cap(o.n + 1), !.last = sample, !.run = run,
                !.before = IF flip THEN o.run ELSE o.before,
                !.bounces = IF "bounce" \in watch /\ flip /\ o.run < HistBits
                            THEN o.bounces + 1 ELSE o.bounces ]
        o3 == IF "edges" \notin watch THEN o2
              ELSE [ o2 EXCEPT
                !.pressCalls = Count("press", u.invoked,
                                     IF flip THEN 0 ELSE o.pressCalls),
                !.releaseCalls = Count("release", u.invoked,
                                       IF flip THEN 0 ELSE o.releaseCalls) ]
        o4 == IF "hold" \notin watch THEN o3
              ELSE [ o3 EXCEPT
                !.held = down, !.holdTime = hold,
                !.reached = IF down /\ o.held
                            THEN o.reached \/ hold >= s.longPressTime
                            ELSE IF down THEN FALSE ELSE o.reached,
                !.lpStarts = Count("longPressStart", u.invoked,
                                   IF down /\ ~o.held THEN 0 ELSE o.lpStarts),
                !.lpEnds = Count("longPressEnd", u.invoked,
                                 IF down /\ ~o.held THEN 0 ELSE o.lpEnds) ]
        o5 == IF "second" \notin watch THEN o4
              ELSE [ o4 EXCEPT
                !.nPress = IF s.doublePressEnabled /\ u.pressed = 1
                           THEN Min(o.nPress + 1, 2) ELSE o.nPress,
                !.relSeen = IF s.doublePressEnabled /\ u.pressed = 1 THEN FALSE
                            ELSE o.relSeen
                                 \/ (s.doublePressEnabled /\ u.released = 1
                                     /\ o.nPress >= 1),
                !.sincePress = IF s.doublePressEnabled /\ u.pressed = 1 THEN 0
                               ELSE IF s.doublePressEnabled /\ o.nPress >= 1
                               THEN Min(o.sincePress + dt, ClockMod)
                               ELSE o.sincePress,
                !.second = IF ~isSecond THEN "none"
                           ELSE IF o.sincePress + dt < s.doublePressWindow
                           THEN "double" ELSE "restart" ]
        o6 == IF "alone" \notin watch THEN o5
              ELSE [ o5 EXCEPT
                !.soloWasDown = solo.wd, !.soloPressStartTime = solo.pst,
                !.soloDetected = solo.detected,
                !.soloInvoked = solo.invoked ]
        o7 == IF "total" \notin watch THEN o6
              ELSE [ o6 EXCEPT
                !.holds = IF down /\ ~o.held THEN Min(@ + 1, 2) ELSE @,
                !.downTotal = IF down /\ o.held THEN Min(@ + dt, ClockMod)
                              ELSE @ ]
    IN  IF "bare" \notin watch THEN o7 ELSE [o7 EXCEPT !.bare = solo.bare]

\* The observer after the double-press step of an update() that found the
\* instance s and left dp.s, dt ms after the previous tick.
ObserveSequencer(o, s, dp, dt) ==
    LET detected == s.dpState = "DP_AWAITING_SECOND"
                    /\ dp.s.dpState = "DP_DETECTED"
        recorded == s.dpState \in {"DP_IDLE", "DP_AWAITING_SECOND"}
                    /\ dp.s.dpState = "DP_FIRST_DETECTED"
        timing   == dp.s.dpState # "DP_IDLE"
        ms       == o.sinceFirst + dt
        expected == IF ~s.doublePressEnabled \/ ~o.timing \/ ms >= ClockMod
                    THEN "any"
                    ELSE IF s.dpState = "DP_AWAITING_SECOND"
                    THEN IF isPressed(s).ret = 1
                         THEN IF ms < s.doublePressWindow
                              THEN "DP_DETECTED" ELSE "DP_FIRST_DETECTED"
                         ELSE IF ms >= s.doublePressWindow
                              THEN "DP_IDLE" ELSE "DP_AWAITING_SECOND"
                    ELSE IF s.dpState = "DP_COOLDOWN"
                    THEN IF ms >= CooldownMs
                         THEN "DP_IDLE" ELSE "DP_COOLDOWN"
                    ELSE "any"
    IN  [ o EXCEPT
            !.invoked = dp.invoked,
            !.expected = expected,
            !.offTicks = IF o.disabled THEN 1 ELSE 0,
            !.dpAsked = IF detected THEN 0 ELSE @,
            !.dpTrue = IF detected THEN 0 ELSE @,
            !.timing = timing,
            !.sinceFirst = IF recorded \/ ~timing THEN 0
                           ELSE Min(@ + dt, ClockMod) ]

\* The observer of an instance while dt ms pass on a tick of another one.
Pass(o, dt) ==
    [ o EXCEPT !.holdTime = IF o.held THEN Min(@ + dt, ClockMod) ELSE @,
               !.sinceFirst = IF o.timing THEN Min(@ + dt, ClockMod) ELSE @ ]

(***************************************************************************)
(* The state after construction: two instances, the statics of update()    *)
(* zero-initialised, millis() at 0.                                        *)
(***************************************************************************)
TypeOK ==
    /\ btn \in [Buttons -> [buttonHistory : 0..65535, active : Levels,
                            prevState : {0, 1}, doublePressEnabled : BOOLEAN,
                            doublePressWindow : Nat,
                            dpState : {"DP_IDLE", "DP_FIRST_DETECTED",
                                       "DP_AWAITING_SECOND", "DP_DETECTED",
                                       "DP_COOLDOWN"},
                            firstPressTime : 0..(ClockMod - 1),
                            isDoublePressed : BOOLEAN, longPressTime : Nat,
                            longPressDetected : BOOLEAN,
                            pressCallback : {NoCallback, "fn"},
                            releaseCallback : {NoCallback, "fn"},
                            doublePressCallback : {NoCallback, "fn"},
                            longPressStartCallback : {NoCallback, "fn"},
                            longPressEndCallback : {NoCallback, "fn"}]]
    /\ wasDown \in BOOLEAN
    /\ pressStartTime \in 0..(ClockMod - 1)
    /\ now \in 0..(ClockMod - 1)

Init ==
    /\ \E la, lb \in Levels :
          btn = [b \in Buttons |-> IF b = "A" THEN Debounce2(la)
                                   ELSE Debounce2(lb)]
    /\ wasDown = FALSE
    /\ pressStartTime = 0
    /\ now = 0
    /\ obs = [b \in Buttons |-> Observer0]

\* both instances built by Debounce(uint8_t buttonPin): active HIGH
InitHigh == Init /\ \A b \in Buttons : btn[b] = Debounce1

(***************************************************************************)
(* The operations.                                                         *)
(***************************************************************************)
\* b.update(), the pin of b reading level and millis() having advanced by
\* dt since it was last read.  With "bounce" in watch the pin changes level
\* before HistBits equal samples at most MaxBounce times.
Update(b, level, dt, watch) ==
    LET s == btn[b]
        t == (now + dt) % ClockMod
        sample == readButton(s, level)
        u == update(s, wasDown, pressStartTime, level, t)
        alone == update([s EXCEPT !.longPressDetected = obs[b].soloDetected],
                        obs[b].soloWasDown, obs[b].soloPressStartTime,
                        level, t)
        twin == update(obs[b].bare.s, obs[b].bare.wd, obs[b].bare.pst,
                       level, t)
        solo == [wd |-> alone.wd, pst |-> alone.pst,
                 detected |-> alone.s.longPressDetected,
                 invoked |-> alone.invoked \cap LongPressEvents,
                 bare |-> [s |-> twin.s, wd |-> twin.wd, pst |-> twin.pst]]
        o1 == Observe(obs[b], s, u, sample, dt, solo, watch)
    IN  /\ "bounce" \in watch => o1.bounces <= MaxBounce
        /\ btn' = [btn EXCEPT ![b] = u.s]
        /\ wasDown' = u.wd
        /\ pressStartTime' = u.pst
        /\ now' = t
        /\ obs' = [c \in Buttons |-> IF c = b THEN o1 ELSE Pass(obs[c], dt)]

\* one pass of the loop of an application built on the variant without
\* callbacks: b.update(), then b.isPressed()
PollBasic(b, level) ==
    LET s == btn[b]
        s1 == updateBasic(s, level)
        q == isPressed(s1)
        u == [s |-> s1, pressed |-> 0, released |-> 0, invoked |-> {}]
        o1 == Observe(obs[b], s, u, readButton(s, level), 0, Observer0,
                      {"samples"})
    IN  /\ btn' = [btn EXCEPT ![b] = q.s]
        /\ obs' = [obs EXCEPT ![b] = [o1 EXCEPT !.queries = 1, !.ret = q.ret]]
        /\ UNCHANGED <<wasDown, pressStartTime, now>>

\* the application calls b.isPressed(); the observer records the call when
\* seen
IsPressed(b, seen) ==
    LET q == isPressed(btn[b]) IN
    /\ btn' = [btn EXCEPT ![b] = q.s]
    /\ obs' = IF seen
              THEN [obs EXCEPT ![b].queries = Min(@ + 1, 2), ![b].ret = q.ret]
              ELSE obs
    /\ UNCHANGED <<wasDown, pressStartTime, now>>

\* the application calls b.isReleased()
IsReleased(b) ==
    LET q == isReleased(btn[b]) IN
    /\ btn' = [btn EXCEPT ![b] = q.s]
    /\ UNCHANGED <<wasDown, pressStartTime, now, obs>>

\* the application calls b.isPressed() or b.isReleased(), and the observer
\* records the call
Query(b, kind) ==
    LET q == IF kind = "isPressed" THEN isPressed(btn[b])
             ELSE isReleased(btn[b])
    IN  /\ btn' = [btn EXCEPT ![b] = q.s]
        /\ obs' = [obs EXCEPT
                     ![b].q = [kind |-> kind, before |-> btn[b].buttonHistory,
                               ret |-> q.ret,
                               again |-> kind \in obs[b].asked,
                               trueBefore |-> kind \in obs[b].answered],
                     ![b].asked = @ \cup {kind},
                     ![b].answered = IF q.ret = 1 THEN @ \cup {kind} ELSE @]
        /\ UNCHANGED <<wasDown, pressStartTime, now>>

\* the application registers a callback, in setup(), before the first tick
OnPress(b) ==
    /\ obs[b].n = 0
    /\ btn' = [btn EXCEPT ![b] = onPress(@, "fn")]
    /\ UNCHANGED <<wasDown, pressStartTime, now, obs>>

OnRelease(b) ==
    /\ obs[b].n = 0
    /\ btn' = [btn EXCEPT ![b] = onRelease(@, "fn")]
    /\ UNCHANGED <<wasDown, pressStartTime, now, obs>>

OnDoublePress(b) ==
    /\ obs[b].n = 0
    /\ btn' = [btn EXCEPT ![b] = onDoublePress(@, "fn")]
    /\ UNCHANGED <<wasDown, pressStartTime, now, obs>>

OnLongPressStart(b) ==
    /\ obs[b].n = 0
    /\ btn' = [btn EXCEPT ![b] = onLongPressStart(@, "fn")]
    /\ UNCHANGED <<wasDown, pressStartTime, now, obs>>

OnLongPressEnd(b) ==
    /\ obs[b].n = 0
    /\ btn' = [btn EXCEPT ![b] = onLongPressEnd(@, "fn")]
    /\ UNCHANGED <<wasDown, pressStartTime, now, obs>>

\* the application calls b.setLongPressTime(timeMs)
SetLongPressTime(b, timeMs) ==
    /\ btn' = [btn EXCEPT ![b] = setLongPressTime(@, timeMs)]
    /\ UNCHANGED <<wasDown, pressStartTime, now, obs>>

\* the application calls b.setDoublePressWindow(windowMs)
SetDoublePressWindow(b, windowMs) ==
    /\ btn' = [btn EXCEPT ![b] = setDoublePressWindow(@, windowMs)]
    /\ UNCHANGED <<wasDown, pressStartTime, now, obs>>

\* the application calls b.enableDoublePressDetection(enable); the observer
\* starts counting presses afresh
EnableDoublePressDetection(b, enable) ==
    /\ btn' = [btn EXCEPT ![b] = enableDoublePressDetection(@, enable)]
    /\ obs' = [obs EXCEPT ![b].nPress = 0, ![b].relSeen = FALSE,
                          ![b].sincePress = 0, ![b].second = "none",
                          ![b].invoked = {}, ![b].disabled = ~enable,
                          ![b].offPhase = IF enable THEN "none"
                                          ELSE btn[b].dpState,
                          ![b].offTicks = 0, ![b].offAsked = 0,
                          ![b].dpRet = 0,
                          ![b].timing = FALSE, ![b].sinceFirst = 0,
                          ![b].expected = "any",
                          ![b].bare.s = enableDoublePressDetection(@, enable)]
    /\ UNCHANGED <<wasDown, pressStartTime, now>>

\* the application calls b.isDoublePressed()
IsDoublePressed(b) ==
    LET q == isDoublePressed(btn[b]) IN
    /\ btn' = [btn EXCEPT ![b] = q.s]
    /\ obs' = [obs EXCEPT ![b].dpRet = q.ret,
                          ![b].dpAsked = Min(@ + 1, 2),
                          ![b].dpTrue = IF q.ret = 1 THEN Min(@ + 1, 2) ELSE @,
                          ![b].offAsked = IF obs[b].disabled THEN 1 ELSE 0]
    /\ UNCHANGED <<wasDown, pressStartTime, now>>

\* The double-press step of b.update() on its own: the statement
\* "if (_doublePressEnabled) updateDoublePress();" entered with the history
\* h, which is what it would find had update() not consumed the press or
\* release itself, millis() having advanced by dt.
DoublePressStep(b, h, dt) ==
    LET s == [btn[b] EXCEPT !.buttonHistory = h]
        t == (now + dt) % ClockMod
        dp == IF s.doublePressEnabled
              THEN updateDoublePress(s, t)
              ELSE [s |-> s, invoked |-> {}]
    IN  /\ btn' = [btn EXCEPT ![b] = dp.s]
        /\ now' = t
        /\ obs' = [c \in Buttons |->
                      IF c = b THEN ObserveSequencer(obs[c], s, dp, dt)
                      ELSE Pass(obs[c], dt)]
        /\ UNCHANGED <<wasDown, pressStartTime>>

(***************************************************************************)
(* Specifications.                                                         *)
(***************************************************************************)
\* one button of either polarity (B is built and never used)
InitOne == Init /\ btn["B"] = Debounce1

\* SpecNoise: one button fed arbitrary samples, the application polling
\* isPressed() and isReleased() between the ticks; millis() stands still.
NextNoise ==
    \/ \E level \in Levels : Update("A", level, 0, {"samples"})
    \/ IsPressed("A", FALSE)
    \/ IsReleased("A")

SpecNoise == InitOne /\ [][NextNoise]_vars

\* SpecPoll: one button whose pin bounces at most MaxBounce times, the
\* application calling update() and isPressed(); millis() stands still.
NextPoll ==
    \/ \E level \in Levels : Update("A", level, 0, {"samples", "bounce"})
    \/ IsPressed("A", TRUE)
    \/ IsReleased("A")

SpecPoll == InitOne /\ [][NextPoll]_vars

\* SpecBasic: the loop of an application built on the variant without
\* callbacks, one button fed arbitrary samples.
NextBasic == \E level \in Levels : PollBasic("A", level)

SpecBasic == InitOne /\ [][NextBasic]_vars

\* SpecEdge: one active-high button fed arbitrary samples, the press and
\* release callbacks registered or not; millis() stands still.
NextEdge ==
    \/ \E level \in Levels : Update("A", level, 0, {"samples", "edges"})
    \/ OnPress("A")
    \/ OnRelease("A")

SpecEdge == InitHigh /\ [][NextEdge]_vars

\* what millis() may have advanced by between two ticks
Steps == {0, TickMs}

\* the values the application configures
LongPressTimes == {0, DefaultLongPressTime}
DoublePressWindows == {DefaultDoublePressWindow, 600}

\* SpecLong: one active-high button whose pin bounces at most MaxBounce
\* times, the long-press callbacks registered or not, the threshold set at
\* any time.
NextLong ==
    \/ \E level \in Levels, dt \in Steps :
          Update("A", level, dt, {"samples", "bounce", "hold"})
    \/ \E ms \in LongPressTimes : SetLongPressTime("A", ms)
    \/ OnLongPressStart("A")
    \/ OnLongPressEnd("A")

SpecLong == InitHigh /\ [][NextLong]_vars

\* SpecDouble: one active-high button whose pin bounces at most MaxBounce
\* times, double-press detection switched on and off, its window set and its
\* callback registered or not.
NextDouble ==
    \/ \E level \in Levels, dt \in Steps :
          Update("A", level, dt, {"samples", "bounce", "second"})
    \/ \E enable \in BOOLEAN : EnableDoublePressDetection("A", enable)
    \/ \E ms \in DoublePressWindows : SetDoublePressWindow("A", ms)
    \/ OnDoublePress("A")

SpecDouble == InitHigh /\ [][NextDouble]_vars

\* SpecTwo: two active-high buttons polled in any order, the pin of A
\* bouncing at most MaxBounce times and the pin of B never asserted, the
\* long-press callbacks of A registered or not.
NextTwo ==
    \/ \E level \in Levels, dt \in Steps :
          Update("A", level, dt, {"samples", "bounce", "alone"})
    \/ \E dt \in Steps : Update("B", LOW, dt, {})
    \/ OnLongPressStart("A")
    \/ OnLongPressEnd("A")

SpecTwo == InitHigh /\ [][NextTwo]_vars

\* the histories the double-press step is entered with
SequencerHistories == {UP, PRESS, DOWN, RELEASE}

\* SpecSequencer: the double-press sequencer of one active-high button taken
\* on its own, entered with any of SequencerHistories, detection switched on
\* and off, the window set, the callback registered or not, and the
\* application calling isDoublePressed().
NextSequencer ==
    \/ \E h \in SequencerHistories, dt \in Steps : DoublePressStep("A", h, dt)
    \/ \E enable \in BOOLEAN : EnableDoublePressDetection("A", enable)
    \/ \E ms \in DoublePressWindows : SetDoublePressWindow("A", ms)
    \/ OnDoublePress("A")
    \/ IsDoublePressed("A")

SpecSequencer == InitHigh /\ [][NextSequencer]_vars

\* SpecWrap: millis() wrapping round while active-high button B, pressed and
\* held, is polled through update(), and the double-press sequencer of
\* active-high button A, detection switched on, is entered with a press or a
\* release to consume.
NextWrap ==
    \/ \E dt \in Steps : Update("B", HIGH, dt, {"samples", "hold"})
    \/ \E h \in {PRESS, RELEASE}, dt \in Steps : DoublePressStep("A", h, dt)
    \/ EnableDoublePressDetection("A", TRUE)

SpecWrap == InitHigh /\ [][NextWrap]_vars

\* SpecBare: one active-high button polled every TickMs ms, its pin bouncing
\* at most MaxBounce times, any of the five callbacks registered or not,
\* double-press detection switched on at any time or never.
NextBare ==
    \/ \E level \in Levels :
          Update("A", level, TickMs, {"samples", "bounce", "bare"})
    \/ EnableDoublePressDetection("A", TRUE)
    \/ OnPress("A")
    \/ OnRelease("A")
    \/ OnDoublePress("A")
    \/ OnLongPressStart("A")
    \/ OnLongPressEnd("A")

SpecBare == InitHigh /\ [][NextBare]_vars

\* SpecMask: isPressed() and isReleased() called in any order on an
\* active-high button holding any history, as update() may have shifted it
\* together.
InitMask ==
    /\ \E h \in 0..(2 ^ HistBits - 1) :
          btn = [b \in Buttons |->
                    IF b = "A" THEN [Debounce1 EXCEPT !.buttonHistory = h]
                    ELSE Debounce1]
    /\ wasDown = FALSE
    /\ pressStartTime = 0
    /\ now = 0
    /\ obs = [b \in Buttons |-> Observer0]

NextMask == \E kind \in {"isPressed", "isReleased"} : Query("A", kind)

SpecMask == InitMask /\ [][NextMask]_vars

\* SpecHolds: one active-high button held and released again and again,
\* its pin bouncing at most MaxBounce times, the threshold left at its
\* default, the long-press-start callback registered or not.
NextHolds ==
    \/ \E level \in Levels, dt \in Steps :
          Update("A", level, dt, {"samples", "bounce", "hold", "total"})
    \/ OnLongPressStart("A")

SpecHolds == InitHigh /\ [][NextHolds]_vars

\* SpecIdle: one button of either polarity whose pin is never asserted,
\* any of the five callbacks registered or not, double-press detection
\* switched on and off, the application calling isPressed() and isReleased().
NextIdle ==
    \/ \E level \in Levels, dt \in Steps :
          /\ readButton(btn["A"], level) = 0
          /\ Update("A", level, dt, {"samples"})
    \/ \E kind \in {"isPressed", "isReleased"} : Query("A", kind)
    \/ \E enable \in BOOLEAN : EnableDoublePressDetection("A", enable)
    \/ OnPress("A")
    \/ OnRelease("A")
    \/ OnDoublePress("A")
    \/ OnLongPressStart("A")
    \/ OnLongPressEnd("A")

SpecIdle == InitOne /\ [][NextIdle]_vars

(***************************************************************************)
(* The claims.  A and o name button A and its observer.                    *)
(***************************************************************************)
A == btn["A"]
o == obs["A"]

\* the instance s with no callback registered
WithoutCallbacks(s) ==
    [s EXCEPT !.pressCallback = NoCallback, !.releaseCallback = NoCallback,
              !.doublePressCallback = NoCallback,
              !.longPressStartCallback = NoCallback,
              !.longPressEndCallback = NoCallback]

\* C1 (as amended): whenever the 16 most recent samples were all asserted
\* isDown() returns true and isUp() false, and whenever they were all
\* deasserted isUp() returns true and isDown() false, whatever queries were
\* called in between.  (The converse does not hold: a detected press or
\* release overwrites the history.)
C1_SettledSamplesDecide ==
    /\ (o.run = HistBits /\ o.last = 1) => (isDown(A) = 1 /\ isUp(A) = 0)
    /\ (o.run = HistBits /\ o.last = 0) => (isUp(A) = 1 /\ isDown(A) = 0)

C1_Witness == o.run = HistBits /\ o.last = 1 /\ isDown(A) = 1

\* C1 (as stated): once 16 samples were read, isDown() is true iff the 16 most
\* recent samples were all asserted, and isUp() iff they were all deasserted.
C1_HistoryIsLastSamples ==
    o.n = HistBits =>
        /\ isDown(A) = 1 <=> (o.run = HistBits /\ o.last = 1)
        /\ isUp(A) = 1 <=> (o.run = HistBits /\ o.last = 0)

\* C2: when update() and then isPressed() are called on every tick, ten or
\* more deasserted samples followed by asserted ones make isPressed() return
\* true on the tick of the 6th asserted sample and on no other.
C2_PublicPressOnce ==
    (o.queries = 1 /\ o.last = 1 /\ o.before >= 10) =>
        (o.ret = 1 <=> o.run = 6)

\* C3: with the callback registered on an active-high button, in a run of
\* asserted samples that follows ten or more deasserted ones the press
\* callback has been invoked once when the run is six or more samples long and
\* not before; likewise the release callback in a run of deasserted samples
\* that follows ten or more asserted ones.
C3_OneCallbackPerEdge ==
    /\ (A.pressCallback # NoCallback /\ o.last = 1 /\ o.before >= 10) =>
          o.pressCalls = IF o.run >= 6 THEN 1 ELSE 0
    /\ (A.releaseCallback # NoCallback /\ o.last = 0 /\ o.before >= 10) =>
          o.releaseCalls = IF o.run >= 6 THEN 1 ELSE 0

C3_Witness ==
    /\ A.pressCallback # NoCallback /\ A.releaseCallback # NoCallback
    /\ o.last = 1 /\ o.before >= 10 /\ o.run >= 8 /\ o.pressCalls = 1

\* C4: after update(), stateChanged() returns true exactly when isDown()
\* differs from what it was before that update().
C4_StateChangedTracksIsDown ==
    o.n >= 1 => (stateChanged(A) = 1 <=> isDown(A) # o.downBefore)

\* C5: with double-press detection enabled and the callback registered, the
\* update() that detects the second press of a press, release, press
\* sequence less than doublePressWindow ms after it detected the first
\* invokes the double-press callback and sets the result flag.
C5_DoublePressFires ==
    (o.second = "double" /\ A.doublePressCallback # NoCallback) =>
        (A.isDoublePressed /\ "doublePress" \in o.invoked)

\* C6: with double-press detection enabled, the update() that detects the
\* second press doublePressWindow ms or more after it detected the first
\* invokes no double-press callback, leaves the result flag false, and makes
\* that press a first press: the phase is DP_FIRST_DETECTED and
\* firstPressTime the time of the second press.
C6_LateSecondPressRestarts ==
    o.second = "restart" =>
        /\ "doublePress" \notin o.invoked
        /\ ~A.isDoublePressed
        /\ A.dpState = "DP_FIRST_DETECTED"
        /\ A.firstPressTime = now

\* C7: with the long-press callbacks registered on a single button, during a
\* hold the start callback has been invoked once if some update() after the
\* one that recorded the down timestamp found the hold at least longPressTime
\* ms old, and not at all otherwise; the end callback has not been invoked
\* during the hold, and after the hold it has been invoked once if the start
\* callback was, and not at all otherwise.
C7_LongPressOncePerHold ==
    (A.longPressStartCallback # NoCallback
     /\ A.longPressEndCallback # NoCallback) =>
        /\ o.lpStarts = IF o.reached THEN 1 ELSE 0
        /\ o.lpEnds = IF o.reached /\ ~o.held THEN 1 ELSE 0

C7_Witness ==
    /\ A.longPressStartCallback # NoCallback
    /\ A.longPressEndCallback # NoCallback
    /\ A.longPressTime = DefaultLongPressTime
    /\ ~o.held /\ o.reached /\ o.holdTime > DefaultLongPressTime
    /\ o.lpStarts = 1 /\ o.lpEnds = 1

\* C8: on a single button an update() invokes the long-press-start callback
\* only in a hold that has reached the threshold and the long-press-end
\* callback only when such a hold ends; a hold that ends before the threshold
\* is reached has invoked neither.
C8_NoLongPressBelowThreshold ==
    /\ "longPressStart" \in o.invoked => (o.held /\ o.reached)
    /\ "longPressEnd" \in o.invoked => (~o.held /\ o.reached)
    /\ ~o.reached => (o.lpStarts = 0 /\ o.lpEnds = 0)

C8_Witness ==
    /\ A.longPressStartCallback # NoCallback
    /\ A.longPressEndCallback # NoCallback
    /\ A.longPressTime = DefaultLongPressTime
    /\ ~o.held /\ ~wasDown /\ ~o.reached /\ o.holdTime >= TickMs
    /\ o.last = 0 /\ o.lpStarts = 0 /\ o.lpEnds = 0

\* C9: the long-press callbacks an update() of A invokes, and the fired flag
\* it leaves, are those A invokes and leaves when no other instance is ticked.
C9_LongPressIndependentOfOthers ==
    /\ o.invoked \cap LongPressEvents = o.soloInvoked
    /\ A.longPressDetected = o.soloDetected

\* C10: the fired flag is true only while the tracker considers the button
\* down.
C10_FiredOnlyWhileDown == A.longPressDetected => wasDown

\* C11: right after construction, for either polarity and before any
\* update(), isUp() returns true and isDown() returns false.
C11_UpAfterConstruction == o.n = 0 => (isUp(A) = 1 /\ isDown(A) = 0)

\* C12: from an enableDoublePressDetection(false) call until the next
\* enableDoublePressDetection(true), whatever phase the call found, the phase
\* is DP_IDLE, no tick invokes the double-press callback, and
\* isDoublePressed() returns false.
C12_DisabledSequencerIsIdle ==
    o.disabled =>
        /\ A.dpState = "DP_IDLE"
        /\ "doublePress" \notin o.invoked
        /\ o.dpRet = 0

C12_Witness ==
    /\ o.disabled /\ o.offPhase = "DP_DETECTED" /\ A.isDoublePressed
    /\ o.offTicks = 1 /\ o.offAsked = 1 /\ A.buttonHistory = PRESS
    /\ A.doublePressCallback # NoCallback /\ A.dpState = "DP_IDLE"

\* C13: of the isDoublePressed() calls made since a double press was
\* detected, at most one has returned true, whether the calls come between
\* ticks or several within one tick.
C13_DoublePressReadOnce == o.dpTrue <= 1

C13_Witness ==
    /\ A.dpState = "DP_DETECTED" /\ A.doublePressEnabled
    /\ o.dpTrue = 1 /\ o.dpAsked = 2 /\ o.dpRet = 0

\* C14: as long as less than 2^ClockBits ms have truly passed since a
\* timestamp was recorded, millis() minus the timestamp is the time that has
\* passed, whether or not millis() has wrapped round in between; so during a
\* hold the long press has fired exactly if an update() found the hold at
\* least longPressTime ms old, and a tick of the sequencer leaves the phase
\* that the time truly passed since the first press calls for.
C14_ElapsedSurvivesWrap ==
    /\ (obs["B"].held /\ obs["B"].holdTime < ClockMod) =>
          /\ Elapsed(now, pressStartTime) = obs["B"].holdTime
          /\ btn["B"].longPressDetected <=> obs["B"].reached
    /\ (o.timing /\ o.sinceFirst < ClockMod) =>
          Elapsed(now, A.firstPressTime) = o.sinceFirst
    /\ o.expected # "any" => A.dpState = o.expected

C14_Witness ==
    /\ obs["B"].held /\ now < pressStartTime
    /\ obs["B"].holdTime >= DefaultLongPressTime
    /\ obs["B"].holdTime < ClockMod /\ btn["B"].longPressDetected
    /\ o.timing /\ now < A.firstPressTime /\ o.sinceFirst >= TickMs
    /\ o.expected = "DP_FIRST_DETECTED"

\* C15: whichever of the five callbacks are registered, update() leaves the
\* instance (history, previous state, sequencer phase, first-press timestamp
\* and result flag, fired flag) and the statics of the long-press tracker as
\* it leaves those of an instance without callbacks that reads the same
\* samples and clock.
C15_CallbacksChangeNothing ==
    /\ WithoutCallbacks(A) = o.bare.s
    /\ wasDown = o.bare.wd
    /\ pressStartTime = o.bare.pst

C15_Witness ==
    /\ o.invoked = {"longPressStart"} /\ A.pressCallback # NoCallback
    /\ A.releaseCallback # NoCallback /\ A.longPressEndCallback # NoCallback
    /\ A.doublePressEnabled /\ A.longPressDetected
    /\ WithoutCallbacks(A) = o.bare.s /\ wasDown = o.bare.wd

\* C16: whatever values setLongPressTime() and setDoublePressWindow() were
\* called with, 0 included, the stored long-press threshold and double-press
\* window are not 0.
C16_ConfigurationNeverZero == A.longPressTime # 0 /\ A.doublePressWindow # 0

\* C17: on any 16-bit history isPressed() returns true exactly if the low
\* six bits are all 1 and the high four all 0, and isReleased() exactly if the
\* low six are all 0 and the high four all 1; a call that returns true leaves
\* the history 0xFFFF (press) or 0x0000 (release), one that returns false
\* leaves it as it was; and a repeated call of either returns false.
C17_MasksAndConsumption ==
    /\ o.q.kind = "isPressed" =>
          /\ o.q.ret = 1 <=> (o.q.before % 64 = 63 /\ o.q.before \div 4096 = 0)
          /\ A.buttonHistory = IF o.q.ret = 1 THEN 65535 ELSE o.q.before
          /\ o.q.again => o.q.ret = 0
    /\ o.q.kind = "isReleased" =>
          /\ o.q.ret = 1 <=> (o.q.before % 64 = 0 /\ o.q.before \div 4096 = 15)
          /\ A.buttonHistory = IF o.q.ret = 1 THEN 0 ELSE o.q.before
          /\ o.q.again => o.q.ret = 0

C17_Witness ==
    /\ o.q.kind = "isPressed" /\ o.q.again /\ o.q.trueBefore
    /\ "isReleased" \notin o.asked
    /\ o.q.ret = 0 /\ o.q.before = 65535 /\ A.buttonHistory = 65535

\* C18: on a single button an update() invokes the long-press-start
\* callback only if isDown() was true before it and after it and the current
\* hold alone is at least longPressTime ms old; the update() on which isDown()
\* becomes true records the current time and clears the fired flag, so that
\* the time measured is that of the current hold, not of earlier ones.
C18_HoldsDoNotAccumulate ==
    /\ "longPressStart" \in o.invoked =>
          (o.held /\ o.downBefore = 1 /\ o.holdTime >= A.longPressTime)
    /\ (o.held /\ o.downBefore = 0) =>
          (pressStartTime = now /\ ~A.longPressDetected)
    /\ (o.held /\ o.holdTime < ClockMod) =>
          Elapsed(now, pressStartTime) = o.holdTime

C18_Witness ==
    /\ A.longPressStartCallback # NoCallback
    /\ o.holds = 2 /\ o.held /\ o.holdTime = TickMs
    /\ o.downTotal = 2 * TickMs /\ o.downTotal >= A.longPressTime
    /\ ~A.longPressDetected /\ o.lpStarts = 0

\* C19: when the button is driven through update() only, with double-press
\* detection switched on or off at any time, the sequencer phase is DP_IDLE
\* in every state, the result flag is never set and the double-press callback
\* is never invoked, also on the tick that detects the second press of a
\* double press.
C19_SequencerNeverLeavesIdle ==
    /\ A.dpState = "DP_IDLE"
    /\ ~A.isDoublePressed
    /\ "doublePress" \notin o.invoked

C19_Witness ==
    /\ A.doublePressEnabled /\ A.doublePressCallback # NoCallback
    /\ o.second = "double" /\ o.pressed = 1
    /\ A.dpState = "DP_IDLE" /\ o.invoked = {}

\* C20: for either polarity, as long as every sample read since construction
\* was deasserted no update() has invoked a callback and no isPressed() or
\* isReleased() call of the application has returned true.
C20_UntouchedButtonIsSilent == o.invoked = {} /\ o.q.ret = 0

====
